---- MODULE Spec2Model ----
(***************************************************************************)
(* we.texturing.TileCache (src/wedemo/ui/tileproviderselector.js,          *)
(* lines 78-312): the level 2 tile cache and its load-request queue.       *)
(*                                                                         *)
(* Tile objects are heap objects with identity: a tile dropped from        *)
(* tileMap_ by setTileProvider can still be in flight at a provider, and a *)
(* new Tile can be created for the same key.  Tiles are therefore modelled *)
(* as ids into the heap `tiles`.  A tile that is neither in tileMap_ nor   *)
(* in flight at a provider is unreachable from the cache and the provider  *)
(* and is dropped from the heap.                                           *)
(*                                                                         *)
(* we.texturing.Tile and we.texturing.TileProvider are not part of the     *)
(* source file; their behaviour (Tile constructor, loadTile,               *)
(* loadingTileCounter, the completion callback) follows spec.md 3, 4.3, 6. *)
(***************************************************************************)
EXTENDS Integers, Sequences, FiniteSets

\* ---------------------------------------------------------------- bounds
NumKeys == 2            \* distinct tile keys (zoom, x, y)
MaxTiles == 2           \* Tile objects alive at once (in tileMap_ or in flight)
MaxTargetSize == 1      \* targetSize takes values in 0..MaxTargetSize
MaxTilesToBeLoading == 2 \* argument of processLoadRequests
MaxTimeLimit == 1       \* argument of purgeNotLoadedTiles
MaxConcurrent == 1      \* the argument of processLoadRequests where it is fixed

Keys == 1..NumKeys
TileIds == 1..MaxTiles
\* The readings of the clock goog.now(): an earlier and a later one.
Times == {0, 1}
\* The TileProvider objects: the one the cache is constructed with and another.
Providers == {"p1", "p2"}
NoTile == 0

\* we.texturing.Tile.State
PREPARING == "PREPARING"
LOADING == "LOADING"
LOADED == "LOADED"
ERROR == "ERROR"

VARIABLES
  now,                    \* goog.now()
  tiles,                  \* heap: tile id -> [key, state, requestTime]
  tileMap_,               \* key -> tile id, NoTile when the key is absent
  loadRequests_,          \* array of tile ids
  tileProvider_,
  tileProviderResetTime_,
  loadingTileCounter,     \* provider -> its loadingTileCounter
  pending,                \* loads accepted by a provider and not yet completed
  superseded,             \* history: tiles that were in flight at a setTileProvider
  watch,                  \* the operations under observation (fixed by the specification)
  lastOp                  \* history: the observed operation that produced this state

vars == <<now, tiles, tileMap_, loadRequests_, tileProvider_,
          tileProviderResetTime_, loadingTileCounter, pending, superseded, watch, lastOp>>

\* ---------------------------------------------------------------- helpers
Min(a, b) == IF a < b THEN a ELSE b
Max(a, b) == IF a > b THEN a ELSE b
Range(s) == {s[i] : i \in 1..Len(s)}

\* goog.structs.Map: getValues(), getCount(), remove(key), clear()
getValues(map) == {map[k] : k \in Keys} \ {NoTile}
getCount(map) == Cardinality({k \in Keys : map[k] # NoTile})
mapRemove(map, key) == [map EXCEPT ![key] = NoTile]
EmptyMap == [k \in Keys |-> NoTile]

\* we.texturing.TileCache.prototype.getTileFromCache
getTileFromCache(key) == tileMap_[key]

\* Tiles still reachable from the cache or from a provider.
Reachable(map, pend) == getValues(map) \cup {l.tile : l \in pend}
Collect(heap, map, pend) ==
  [t \in (DOMAIN heap) \cap Reachable(map, pend) |-> heap[t]]

\* The id of the next Tile object: the least id no reachable tile uses.
FreeIds == TileIds \ DOMAIN tiles
NewId == CHOOSE t \in FreeIds : \A u \in FreeIds : t <= u

\* new we.texturing.Tile(zoom, x, y, requestTime)
NewTile(key, requestTime) ==
  [key |-> key, state |-> PREPARING, requestTime |-> requestTime]

\* goog.array.remove(arr, obj): removes the first occurrence of obj
RECURSIVE arrayRemove(_, _)
arrayRemove(arr, obj) ==
  IF arr = <<>> THEN <<>>
  ELSE IF Head(arr) = obj THEN Tail(arr)
  ELSE <<Head(arr)>> \o arrayRemove(Tail(arr), obj)

\* goog.array.sort(arr, compare by requestTime): every ascending arrangement
\* of arr; the order of tiles with equal requestTime is left to the engine.
Permutations(n) ==
  {p \in [1..n -> 1..n] : \A i, j \in 1..n : i # j => p[i] # p[j]}
arraySort(arr, heap) ==
  IF arr = <<>> THEN {<<>>}
  ELSE {s \in {[i \in 1..Len(arr) |-> arr[p[i]]] : p \in Permutations(Len(arr))} :
          \A i \in 1..(Len(arr) - 1) :
            heap[s[i]].requestTime - heap[s[i + 1]].requestTime <= 0}

\* The record of an operation, kept when the operation is under observation.
Observe(r) == IF r.op \in watch THEN r ELSE [op |-> "other"]

\* ---------------------------------------------------------------- Init
\* The constructor (lines 102-132) ends with setTileProvider(tileprovider).
Init ==
  /\ now = 0
  /\ tiles = <<>>
  /\ tileMap_ = EmptyMap
  /\ loadRequests_ = <<>>
  /\ tileProvider_ = "p1"
  /\ tileProviderResetTime_ = 0
  /\ loadingTileCounter = [p \in Providers |-> 0]
  /\ pending = {}
  /\ superseded = {}
  /\ lastOp = [op |-> "init"]

\* The clock is monotonically non-decreasing.
Tick ==
  /\ now + 1 \in Times
  /\ now' = now + 1
  /\ lastOp' = Observe([op |-> "tick"])
  /\ UNCHANGED <<watch, tiles, tileMap_, loadRequests_, tileProvider_,
                 tileProviderResetTime_, loadingTileCounter, pending, superseded>>

\* ---------------------------------------------------------------- setTileProvider
\* Variant: the load-request array is kept.
setTileProviderKeepsQueue(tileprovider) ==
  /\ tileProviderResetTime_' = now
  /\ tileProvider_' = tileprovider
  /\ tileMap_' = tileMap_
  /\ loadRequests_' = loadRequests_
  /\ superseded' = superseded \cup {l.tile : l \in pending}
  /\ tiles' = tiles
  /\ lastOp' = Observe([op |-> "setTileProvider", provider |-> tileprovider,
                         inflight |-> Cardinality(pending)])
  /\ UNCHANGED <<watch, now, loadingTileCounter, pending>>

setTileProvider(tileprovider) ==
  /\ tileProviderResetTime_' = now
  /\ tileProvider_' = tileprovider
  /\ tileMap_' = EmptyMap
  /\ loadRequests_' = <<>>
  /\ superseded' = superseded \cup {l.tile : l \in pending}
  /\ tiles' = Collect(tiles, EmptyMap, pending)
  /\ lastOp' = Observe([op |-> "setTileProvider", provider |-> tileprovider,
                         inflight |-> Cardinality(pending)])
  /\ UNCHANGED <<watch, now, loadingTileCounter, pending>>

\* ---------------------------------------------------------------- retrieveTile
\* Variant: a new tile is stored but not queued for loading.
retrieveTileNoPush(key, requestTime) ==
  LET tile == getTileFromCache(key) IN
  IF tile = NoTile
  THEN /\ FreeIds # {}
       /\ tiles' = [t \in (DOMAIN tiles) \cup {NewId} |->
                      IF t = NewId THEN NewTile(key, requestTime) ELSE tiles[t]]
       /\ tileMap_' = [tileMap_ EXCEPT ![key] = NewId]
       /\ lastOp' = Observe([op |-> "retrieveTile", key |-> key, hit |-> FALSE,
                              tile |-> NewId, lowered |-> FALSE])
       /\ UNCHANGED <<watch, now, loadRequests_, tileProvider_, tileProviderResetTime_,
                      loadingTileCounter, pending, superseded>>
  ELSE /\ tiles' = [tiles EXCEPT ![tile].requestTime = requestTime]
       /\ lastOp' = Observe([op |-> "retrieveTile", key |-> key, hit |-> TRUE,
                              tile |-> tile,
                              lowered |-> (requestTime < tiles[tile].requestTime)])
       /\ UNCHANGED <<watch, now, tileMap_, loadRequests_, tileProvider_,
                      tileProviderResetTime_, loadingTileCounter, pending, superseded>>

\* Variant: a tile found in the cache is queued again.
retrieveTileRequeue(key, requestTime) ==
  LET tile == getTileFromCache(key) IN
  IF tile = NoTile
  THEN /\ FreeIds # {}
       /\ tiles' = [t \in (DOMAIN tiles) \cup {NewId} |->
                      IF t = NewId THEN NewTile(key, requestTime) ELSE tiles[t]]
       /\ tileMap_' = [tileMap_ EXCEPT ![key] = NewId]
       /\ loadRequests_' = Append(loadRequests_, NewId)
       /\ lastOp' = Observe([op |-> "retrieveTile", key |-> key, hit |-> FALSE,
                              tile |-> NewId, lowered |-> FALSE])
       /\ UNCHANGED <<watch, now, tileProvider_, tileProviderResetTime_,
                      loadingTileCounter, pending, superseded>>
  ELSE /\ tiles' = [tiles EXCEPT ![tile].requestTime = requestTime]
       /\ loadRequests_' = Append(loadRequests_, tile)
       /\ lastOp' = Observe([op |-> "retrieveTile", key |-> key, hit |-> TRUE,
                              tile |-> tile,
                              lowered |-> (requestTime < tiles[tile].requestTime)])
       /\ UNCHANGED <<watch, now, tileMap_, tileProvider_,
                      tileProviderResetTime_, loadingTileCounter, pending, superseded>>

\* The requestTime passed is a reading of the clock taken at or before the call.
retrieveTile(key, requestTime) ==
  LET tile == getTileFromCache(key) IN
  IF tile = NoTile
  THEN /\ FreeIds # {}
       /\ tiles' = [t \in (DOMAIN tiles) \cup {NewId} |->
                      IF t = NewId THEN NewTile(key, requestTime) ELSE tiles[t]]
       /\ tileMap_' = [tileMap_ EXCEPT ![key] = NewId]
       /\ loadRequests_' = Append(loadRequests_, NewId)
       /\ lastOp' = Observe([op |-> "retrieveTile", key |-> key, hit |-> FALSE,
                              tile |-> NewId, lowered |-> FALSE])
       /\ UNCHANGED <<watch, now, tileProvider_, tileProviderResetTime_,
                      loadingTileCounter, pending, superseded>>
  ELSE /\ tiles' = [tiles EXCEPT ![tile].requestTime = requestTime]
       /\ lastOp' = Observe([op |-> "retrieveTile", key |-> key, hit |-> TRUE,
                              tile |-> tile,
                              lowered |-> (requestTime < tiles[tile].requestTime)])
       /\ UNCHANGED <<watch, now, tileMap_, loadRequests_, tileProvider_,
                      tileProviderResetTime_, loadingTileCounter, pending, superseded>>

\* ---------------------------------------------------------------- updateRequestTime
\* Variant: a key that is not in the cache is requested as retrieveTile does.
updateRequestTimeCreates(key, requestTime) == retrieveTile(key, requestTime)

\* Variant: the request time is only ever raised.
updateRequestTimeOnlyRaise(key, requestTime) ==
  LET tile == getTileFromCache(key) IN
  /\ tiles' = IF tile # NoTile
              THEN [tiles EXCEPT ![tile].requestTime = Max(@, requestTime)]
              ELSE tiles
  /\ lastOp' = Observe([op |-> "updateRequestTime", key |-> key, hit |-> (tile # NoTile),
                         lowered |-> (tile # NoTile /\ requestTime < tiles[tile].requestTime)])
  /\ UNCHANGED <<watch, now, tileMap_, loadRequests_, tileProvider_,
                 tileProviderResetTime_, loadingTileCounter, pending, superseded>>

updateRequestTime(key, requestTime) ==
  LET tile == getTileFromCache(key) IN
  /\ tiles' = IF tile # NoTile
              THEN [tiles EXCEPT ![tile].requestTime = requestTime]
              ELSE tiles
  /\ lastOp' = Observe([op |-> "updateRequestTime", key |-> key, hit |-> (tile # NoTile),
                         lowered |-> (tile # NoTile /\ requestTime < tiles[tile].requestTime)])
  /\ UNCHANGED <<watch, now, tileMap_, loadRequests_, tileProvider_,
                 tileProviderResetTime_, loadingTileCounter, pending, superseded>>

\* ---------------------------------------------------------------- tileLoaded_
\* Variant: a tile requested exactly at the reset time is treated as late.
tileLoaded_LateOnEqual(tile, resetTime) ==
  IF tile.requestTime <= resetTime
  THEN [tile |-> [tile EXCEPT !.state = ERROR], cached |-> FALSE]
  ELSE [tile |-> tile, cached |-> TRUE]

\* Variant: no check against the reset time, every loaded tile is cached.
tileLoaded_CachesLate(tile, resetTime) == [tile |-> tile, cached |-> TRUE]

\* Variant: a late tile is put back to PREPARING instead of ERROR.
tileLoaded_LateToPreparing(tile, resetTime) ==
  IF tile.requestTime < resetTime
  THEN [tile |-> [tile EXCEPT !.state = PREPARING], cached |-> FALSE]
  ELSE [tile |-> tile, cached |-> TRUE]

\* The callback bound to every provider's tileLoadedHandler (line 142).
\* Returns the tile as the callback leaves it and whether tileCachedHandler
\* was invoked with it.
tileLoaded_(tile, resetTime) ==
  IF tile.requestTime < resetTime
  THEN [tile |-> [tile EXCEPT !.state = ERROR], cached |-> FALSE]
  ELSE [tile |-> tile, cached |-> TRUE]

\* ---------------------------------------------------------------- TileProvider
\* loadTile(tile) accepted: the provider marks the tile Loading and counts it.
ProviderAccept(heap, tile) == [heap EXCEPT ![tile].state = LOADING]

\* The provider reports a successful load: the tile becomes Loaded, the
\* provider's counter drops, and its tileLoadedHandler runs exactly once.
ProviderTileLoaded(l) ==
  LET loadedTile == [tiles[l.tile] EXCEPT !.state = LOADED]
      r == tileLoaded_(loadedTile, tileProviderResetTime_)
      rest == pending \ {l}
  IN /\ pending' = rest
     /\ loadingTileCounter' =
          [loadingTileCounter EXCEPT ![l.provider] = loadingTileCounter[l.provider] - 1]
     /\ tiles' = Collect([tiles EXCEPT ![l.tile] = r.tile], tileMap_, rest)
     /\ superseded' = superseded \ {l.tile}
     /\ lastOp' = Observe([op |-> "tileLoaded_", tile |-> l.tile, key |-> r.tile.key,
                   requestTime |-> r.tile.requestTime, state |-> r.tile.state,
                   cached |-> r.cached, superseded |-> (l.tile \in superseded)])
     /\ UNCHANGED <<watch, now, tileMap_, loadRequests_, tileProvider_,
                    tileProviderResetTime_>>

\* The provider reports a failed load: the tile becomes Error, no callback.
ProviderTileFailed(l) ==
  LET rest == pending \ {l} IN
  /\ pending' = rest
  /\ loadingTileCounter' =
       [loadingTileCounter EXCEPT ![l.provider] = loadingTileCounter[l.provider] - 1]
  /\ tiles' = Collect([tiles EXCEPT ![l.tile].state = ERROR], tileMap_, rest)
  /\ superseded' = superseded \ {l.tile}
  /\ lastOp' = Observe([op |-> "tileFailed", tile |-> l.tile])
  /\ UNCHANGED <<watch, now, tileMap_, loadRequests_, tileProvider_,
                 tileProviderResetTime_>>

\* ---------------------------------------------------------------- cleanCache
\* Variant: no filter, every cached tile is a candidate.
CleanableUnfiltered(map, heap) == getValues(map)

\* The filter of lines 188-193.
Cleanable(map, heap) ==
  {t \in getValues(map) : \/ heap[t].state = LOADED
                          \/ heap[t].state = PREPARING
                          \/ heap[t].state = ERROR}

\* Variant: the candidates are sorted most recently requested first.
SortedCleanableDescending(map, heap) ==
  LET c == Cleanable(map, heap)
      n == Cardinality(c)
  IN {s \in [1..n -> c] :
        /\ \A i, j \in 1..n : i # j => s[i] # s[j]
        /\ \A i \in 1..(n - 1) : heap[s[i + 1]].requestTime - heap[s[i]].requestTime <= 0}

\* The sorted candidates (lines 195-197): an ascending arrangement of Cleanable.
SortedCleanable(map, heap) ==
  LET c == Cleanable(map, heap)
      n == Cardinality(c)
  IN {s \in [1..n -> c] :
        /\ \A i, j \in 1..n : i # j => s[i] # s[j]
        /\ \A i \in 1..(n - 1) : heap[s[i]].requestTime - heap[s[i + 1]].requestTime <= 0}

\* Variant: the loop stops one tile above the target size.
RECURSIVE CleanLoopStopsEarly(_, _, _, _, _)
CleanLoopStopsEarly(cleanable, map, queue, heap, target) ==
  IF getCount(map) > target + 1 /\ Len(cleanable) > 0
  THEN LET tile == Head(cleanable) IN
       CleanLoopStopsEarly(Tail(cleanable),
                 mapRemove(map, heap[tile].key),
                 IF heap[tile].state = PREPARING THEN arrayRemove(queue, tile) ELSE queue,
                 heap, target)
  ELSE [map |-> map, queue |-> queue]

\* Variant: a removed tile is left in the load-request array.
RECURSIVE CleanLoopKeepsQueue(_, _, _, _, _)
CleanLoopKeepsQueue(cleanable, map, queue, heap, target) ==
  IF getCount(map) > target /\ Len(cleanable) > 0
  THEN LET tile == Head(cleanable) IN
       CleanLoopKeepsQueue(Tail(cleanable), mapRemove(map, heap[tile].key),
                           queue, heap, target)
  ELSE [map |-> map, queue |-> queue]

\* The loop of lines 199-206.
RECURSIVE CleanLoop(_, _, _, _, _)
CleanLoop(cleanable, map, queue, heap, target) ==
  IF getCount(map) > target /\ Len(cleanable) > 0
  THEN LET tile == Head(cleanable) IN
       CleanLoop(Tail(cleanable),
                 mapRemove(map, heap[tile].key),
                 IF heap[tile].state = PREPARING THEN arrayRemove(queue, tile) ELSE queue,
                 heap, target)
  ELSE [map |-> map, queue |-> queue]

\* targetSize is a public field (line 118) that only cleanCache reads; the
\* value it holds when the clean timer ticks is the action's parameter.
cleanCache(targetSize) ==
  \E cleanable \in SortedCleanable(tileMap_, tiles) :
    LET r == CleanLoop(cleanable, tileMap_, loadRequests_, tiles, targetSize) IN
    /\ tileMap_' = r.map
    /\ loadRequests_' = r.queue
    /\ tiles' = Collect(tiles, r.map, pending)
    /\ lastOp' = Observe([op |-> "cleanCache", targetSize |-> targetSize,
                  removed |-> getCount(tileMap_) - getCount(r.map)])
    /\ UNCHANGED <<watch, now, tileProvider_, tileProviderResetTime_,
                   loadingTileCounter, pending, superseded>>

\* ---------------------------------------------------------------- purgeNotLoadedTiles
\* Variant: a purged tile is left in tileMap_.
RECURSIVE PurgeLoopKeepsInMap(_, _, _, _)
PurgeLoopKeepsInMap(queue, map, heap, time) ==
  IF Len(queue) > 0 /\ heap[queue[1]].requestTime < time
  THEN PurgeLoopKeepsInMap(Tail(queue), map, heap, time)
  ELSE [map |-> map, queue |-> queue]

\* The loop of lines 273-278.
RECURSIVE PurgeLoop(_, _, _, _)
PurgeLoop(queue, map, heap, time) ==
  IF Len(queue) > 0 /\ heap[queue[1]].requestTime < time
  THEN PurgeLoop(Tail(queue), mapRemove(map, heap[queue[1]].key), heap, time)
  ELSE [map |-> map, queue |-> queue]

purgeNotLoadedTiles(timeLimit) ==
  LET time == now - timeLimit
      r == PurgeLoop(loadRequests_, tileMap_, tiles, time)
  IN /\ tileMap_' = r.map
     /\ loadRequests_' = r.queue
     /\ tiles' = Collect(tiles, r.map, pending)
     /\ lastOp' = Observe([op |-> "purgeNotLoadedTiles", timeLimit |-> timeLimit,
                   removed |-> Len(loadRequests_) - Len(r.queue)])
     /\ UNCHANGED <<watch, now, tileProvider_, tileProviderResetTime_,
                    loadingTileCounter, pending, superseded>>

\* ---------------------------------------------------------------- processLoadRequests
\* Variant: the loads the provider already has in flight are not counted.
LoadCountIgnoresCounter(queue, tilesToBeLoading, counter) ==
  Min(Len(queue), tilesToBeLoading)

\* The number of loop rounds (lines 294-295).
LoadCount(queue, tilesToBeLoading, counter) ==
  Min(Len(queue), tilesToBeLoading - counter)

\* Variant: the loop takes the tiles from the front of the array.
RECURSIVE LoadLoopOldestFirst(_, _, _, _, _)
LoadLoopOldestFirst(queue, accepted, accepts, i, n) ==
  IF i <= n
  THEN LET tile == queue[1]
           popped == Tail(queue)
       IN IF accepts[i]
          THEN LoadLoopOldestFirst(popped, Append(accepted, tile), accepts, i + 1, n)
          ELSE LoadLoopOldestFirst(<<tile>> \o popped, accepted, accepts, i + 1, n)
  ELSE [queue |-> queue, accepted |-> accepted]

\* Variant: a tile the provider declines is not pushed back.
RECURSIVE LoadLoopDropsDeclined(_, _, _, _, _)
LoadLoopDropsDeclined(queue, accepted, accepts, i, n) ==
  IF i <= n
  THEN LET tile == queue[Len(queue)]
           popped == SubSeq(queue, 1, Len(queue) - 1)
       IN IF accepts[i]
          THEN LoadLoopDropsDeclined(popped, Append(accepted, tile), accepts, i + 1, n)
          ELSE LoadLoopDropsDeclined(popped, accepted, accepts, i + 1, n)
  ELSE [queue |-> queue, accepted |-> accepted]

\* The loop of lines 296-301; accepts[i] is the result of the i-th loadTile call.
RECURSIVE LoadLoop(_, _, _, _, _)
LoadLoop(queue, accepted, accepts, i, n) ==
  IF i <= n
  THEN LET tile == queue[Len(queue)]
           popped == SubSeq(queue, 1, Len(queue) - 1)
       IN IF accepts[i]
          THEN LoadLoop(popped, Append(accepted, tile), accepts, i + 1, n)
          ELSE LoadLoop(Append(popped, tile), accepted, accepts, i + 1, n)
  ELSE [queue |-> queue, accepted |-> accepted]

\* The calls of loadTile made by the loop, in order: the i-th call gets the
\* tile popped (line 297) from the array the first i - 1 rounds have left;
\* queued are the tiles in the array during the call.
LoadOffers(sorted, accepts, n) ==
  [i \in 1..Max(n, 0) |->
     LET q == LoadLoop(sorted, <<>>, accepts, 1, i - 1).queue IN
     [tile |-> q[Len(q)],
      queued |-> Range(SubSeq(q, 1, Len(q) - 1)),
      accepted |-> accepts[i]]]

RECURSIVE AcceptAll(_, _)
AcceptAll(heap, accepted) ==
  IF accepted = <<>> THEN heap
  ELSE AcceptAll(ProviderAccept(heap, Head(accepted)), Tail(accepted))

processLoadRequests(tilesToBeLoading) ==
  \E sorted \in arraySort(loadRequests_, tiles) :
    LET n == LoadCount(sorted, tilesToBeLoading, loadingTileCounter[tileProvider_]) IN
    \E accepts \in [1..Max(n, 0) -> BOOLEAN] :
      LET r == LoadLoop(sorted, <<>>, accepts, 1, n) IN
      /\ loadRequests_' = r.queue
      /\ tiles' = AcceptAll(tiles, r.accepted)
      /\ pending' = pending \cup
                      {[tile |-> t, provider |-> tileProvider_] : t \in Range(r.accepted)}
      /\ loadingTileCounter' =
           [loadingTileCounter EXCEPT ![tileProvider_] =
              loadingTileCounter[tileProvider_] + Len(r.accepted)]
      /\ lastOp' = IF "loadTile" \in watch
                    THEN [op |-> "loadTile", offers |-> LoadOffers(sorted, accepts, n)]
                    ELSE Observe([op |-> "processLoadRequests",
                                  tilesToBeLoading |-> tilesToBeLoading,
                                  accepted |-> Len(r.accepted),
                                  declined |-> Cardinality({i \in 1..n : ~accepts[i]})])
      /\ UNCHANGED <<watch, now, tileMap_, tileProvider_,
                     tileProviderResetTime_, superseded>>

Next ==
  \/ Tick
  \/ \E p \in Providers : setTileProvider(p)
  \/ \E k \in Keys, rt \in 0..now : retrieveTile(k, rt)
  \/ \E k \in Keys, rt \in 0..now : updateRequestTime(k, rt)
  \/ \E l \in pending : ProviderTileLoaded(l)
  \/ \E l \in pending : ProviderTileFailed(l)
  \/ \E targetSize \in 0..MaxTargetSize : cleanCache(targetSize)
  \/ \E timeLimit \in 0..MaxTimeLimit : purgeNotLoadedTiles(timeLimit)
  \/ \E m \in 0..MaxTilesToBeLoading : processLoadRequests(m)

\* setTileProvider with a provider that has no load in flight.
setFreshProvider(tileprovider) ==
  /\ loadingTileCounter[tileprovider] = 0
  /\ setTileProvider(tileprovider)

\* The cache driven with one fixed tilesToBeLoading and fresh providers only:
\* retrieveTile, processLoadRequests, the providers' completions and
\* setTileProvider.
NextCap ==
  \/ Tick
  \/ \E p \in Providers : setFreshProvider(p)
  \/ \E k \in Keys, rt \in 0..now : retrieveTile(k, rt)
  \/ \E l \in pending : ProviderTileLoaded(l)
  \/ \E l \in pending : ProviderTileFailed(l)
  \/ processLoadRequests(MaxConcurrent)

\* One specification per observed operation.
Watching(ops) == Init /\ watch = ops
InitNone == Watching({})
InitRetrieve == Watching({"retrieveTile"})
InitUpdate == Watching({"updateRequestTime"})
InitLoaded == Watching({"tileLoaded_"})
InitClean == Watching({"cleanCache"})
InitPurge == Watching({"purgeNotLoadedTiles"})
InitDispatch == Watching({"processLoadRequests"})
InitProvider == Watching({"setTileProvider"})
InitOffers == Watching({"loadTile"})

Spec == InitNone /\ [][Next]_vars
SpecRetrieve == InitRetrieve /\ [][Next]_vars
SpecUpdate == InitUpdate /\ [][Next]_vars
SpecLoaded == InitLoaded /\ [][Next]_vars
SpecClean == InitClean /\ [][Next]_vars
SpecPurge == InitPurge /\ [][Next]_vars
SpecDispatch == InitDispatch /\ [][Next]_vars
SpecProvider == InitProvider /\ [][Next]_vars
SpecOffers == InitOffers /\ [][Next]_vars
SpecCap == InitNone /\ [][NextCap]_vars

\* ================================================================ properties
InStore(t) == t \in getValues(tileMap_)

\* ---------------------------------------------------------------- C1
\* C1: a tile that was in flight when setTileProvider was called is never
\* passed to tileCachedHandler when its load completes afterwards.
SupersededNeverCached ==
  (lastOp.op = "tileLoaded_" /\ lastOp.superseded) => ~lastOp.cached

\* ---------------------------------------------------------------- C2
\* C2: when a provider reports a tile as loaded, tileCachedHandler is invoked
\* with it exactly when its requestTime is >= tileProviderResetTime_; when
\* its requestTime is smaller the tile's state becomes ERROR.
LoadedAcceptedIffNotLate ==
  lastOp.op = "tileLoaded_" =>
    /\ lastOp.cached <=> (lastOp.requestTime >= tileProviderResetTime_)
    /\ lastOp.requestTime < tileProviderResetTime_ => lastOp.state = ERROR
    /\ InStore(lastOp.tile) => tiles[lastOp.tile].state = lastOp.state

\* A completion rejected as late: the tile was requested before the reset.
LateTileRejected ==
  /\ lastOp.op = "tileLoaded_"
  /\ lastOp.requestTime < tileProviderResetTime_
  /\ ~lastOp.cached
  /\ lastOp.state = ERROR

\* ---------------------------------------------------------------- C3
\* C3 as stated: the requestTime of a tile that stays in the cache never
\* decreases.
RequestTimeNeverDecreases ==
  [][\A k \in Keys :
       (tileMap_[k] # NoTile /\ tileMap_'[k] = tileMap_[k]) =>
         tiles'[tileMap_[k]].requestTime >= tiles[tileMap_[k]].requestTime]_vars

\* C3 as amended: retrieveTile and updateRequestTime on a key that is in the
\* cache set the tile's requestTime to the value passed, and no other
\* operation changes the requestTime of a tile.
IsRequest(k, rt) == retrieveTile(k, rt) \/ updateRequestTime(k, rt)
RequestTimeIsLastPassed ==
  [][/\ \A k \in Keys, rt \in Times :
          (IsRequest(k, rt) /\ tileMap_[k] # NoTile) =>
            /\ tileMap_'[k] = tileMap_[k]
            /\ tiles'[tileMap_[k]].requestTime = rt
     /\ (~ \E k \in Keys, rt \in Times : IsRequest(k, rt)) =>
          \A t \in (DOMAIN tiles) \cap (DOMAIN tiles') :
            tiles'[t].requestTime = tiles[t].requestTime]_vars

\* updateRequestTime has lowered the requestTime of a cached tile.
RequestTimeLowered ==
  /\ lastOp.op = "updateRequestTime"
  /\ lastOp.hit
  /\ lastOp.lowered
  /\ tiles[tileMap_[lastOp.key]].requestTime < now

\* ---------------------------------------------------------------- C4
\* C4: retrieveTile on an absent key creates one Tile in PREPARING state,
\* stores it under the key and appends it to loadRequests_ once; on a present
\* key it returns the stored Tile and adds neither a store nor a queue entry.
Occurrences(arr, t) == Cardinality({i \in 1..Len(arr) : arr[i] = t})
RetrieveCreatesOnce ==
  [][lastOp'.op = "retrieveTile" =>
       LET k == lastOp'.key
           t == lastOp'.tile
       IN IF tileMap_[k] = NoTile
          THEN /\ ~lastOp'.hit
               /\ t \notin DOMAIN tiles
               /\ DOMAIN tiles' = (DOMAIN tiles) \cup {t}
               /\ tiles'[t].state = PREPARING
               /\ tiles'[t].key = k
               /\ tileMap_' = [tileMap_ EXCEPT ![k] = t]
               /\ loadRequests_' = Append(loadRequests_, t)
               /\ Occurrences(loadRequests_', t) = 1
          ELSE /\ lastOp'.hit
               /\ t = tileMap_[k]
               /\ DOMAIN tiles' = DOMAIN tiles
               /\ tiles'[t].state = tiles[t].state
               /\ tileMap_' = tileMap_
               /\ loadRequests_' = loadRequests_]_vars

\* A repeated retrieveTile returned the tile that is stored and still queued.
RetrieveHitQueuedTile ==
  /\ lastOp.op = "retrieveTile"
  /\ lastOp.hit
  /\ tileMap_[lastOp.key] = lastOp.tile
  /\ Occurrences(loadRequests_, lastOp.tile) = 1
  /\ tiles[lastOp.tile].state = PREPARING

\* ---------------------------------------------------------------- C5
\* C5: after purgeNotLoadedTiles(timeLimit) no tile in loadRequests_ has a
\* requestTime older than now - timeLimit.
PurgeLeavesNoStaleTile ==
  lastOp.op = "purgeNotLoadedTiles" =>
    \A t \in Range(loadRequests_) : tiles[t].requestTime >= now - lastOp.timeLimit

\* ---------------------------------------------------------------- C6
\* C6: purgeNotLoadedTiles(timeLimit) removes from loadRequests_ only tiles
\* with requestTime < now - timeLimit, every tile it removes is absent from
\* tileMap_ afterwards, and the other tiles keep their place in tileMap_ and
\* in loadRequests_.
PurgeRemovesOnlyStale ==
  [][lastOp'.op = "purgeNotLoadedTiles" =>
       LET time == now - lastOp'.timeLimit
           removed == Range(loadRequests_) \ Range(loadRequests_')
           kept == Len(loadRequests_')
       IN /\ \A t \in removed :
               /\ tiles[t].requestTime < time
               /\ \A k \in Keys : tileMap_'[k] # t
          /\ Cardinality(removed) = lastOp'.removed
          /\ kept <= Len(loadRequests_)
          /\ loadRequests_' =
               SubSeq(loadRequests_, Len(loadRequests_) - kept + 1, Len(loadRequests_))
          /\ \A k \in Keys :
               tileMap_'[k] = IF tileMap_[k] \in removed THEN NoTile ELSE tileMap_[k]]_vars

\* A purge that removed a stale tile and kept another tile queued.
PurgeRemovedAndKept ==
  /\ lastOp.op = "purgeNotLoadedTiles"
  /\ lastOp.removed >= 1
  /\ loadRequests_ # <<>>
  /\ \A t \in Range(loadRequests_) : InStore(t)

\* ---------------------------------------------------------------- C7
\* C7: after cleanCache on a cache holding more than targetSize tiles, the
\* cache holds at most targetSize tiles, unless more than targetSize tiles
\* are LOADING, and then exactly the LOADING tiles are left.
LoadingIn(map, heap) == {t \in getValues(map) : heap[t].state = LOADING}
CleanReachesTarget ==
  [][(lastOp'.op = "cleanCache" /\ getCount(tileMap_) > lastOp'.targetSize) =>
       IF Cardinality(LoadingIn(tileMap_, tiles)) > lastOp'.targetSize
       THEN /\ getValues(tileMap_') = LoadingIn(tileMap_, tiles)
            /\ \A k \in Keys : tileMap_'[k] \in {NoTile, tileMap_[k]}
       ELSE getCount(tileMap_') <= lastOp'.targetSize]_vars

\* A clean that removed tiles and left more than targetSize LOADING tiles.
CleanLeftLoadingAboveTarget ==
  /\ lastOp.op = "cleanCache"
  /\ lastOp.removed >= 1
  /\ getCount(tileMap_) > lastOp.targetSize
  /\ \A t \in getValues(tileMap_) : tiles[t].state = LOADING

\* ---------------------------------------------------------------- C8
\* C8: neither cleanCache nor purgeNotLoadedTiles removes a LOADING tile from
\* tileMap_ or changes its state.
IsMaintenance ==
  \/ \E targetSize \in 0..MaxTargetSize : cleanCache(targetSize)
  \/ \E timeLimit \in 0..MaxTimeLimit : purgeNotLoadedTiles(timeLimit)
MaintenanceKeepsLoading ==
  [][IsMaintenance =>
       \A k \in Keys :
         (tileMap_[k] # NoTile /\ tiles[tileMap_[k]].state = LOADING) =>
           /\ tileMap_'[k] = tileMap_[k]
           /\ tiles'[tileMap_[k]].state = LOADING]_vars

\* A clean that removed a tile while another tile of the cache was LOADING.
CleanRemovedBesideLoading ==
  /\ lastOp.op = "cleanCache"
  /\ lastOp.removed >= 1
  /\ LoadingIn(tileMap_, tiles) # {}
  /\ getCount(tileMap_) <= lastOp.targetSize

\* ---------------------------------------------------------------- C9
\* C9: cleanCache removes exactly max(0, min(size - targetSize, number of
\* tiles not LOADING)) tiles, every removed tile has a requestTime <= that of
\* every tile not LOADING it leaves, and with size <= targetSize it changes
\* neither tileMap_ nor loadRequests_.
CleanRemovesLeastRecent ==
  [][lastOp'.op = "cleanCache" =>
       LET target == lastOp'.targetSize
           before == getValues(tileMap_)
           after == getValues(tileMap_')
           removed == before \ after
           notLoading == before \ LoadingIn(tileMap_, tiles)
       IN /\ after \subseteq before
          /\ Cardinality(removed) =
               Max(0, Min(getCount(tileMap_) - target, Cardinality(notLoading)))
          /\ Cardinality(removed) = lastOp'.removed
          /\ \A r \in removed, t \in notLoading \cap after :
               tiles[r].requestTime <= tiles[t].requestTime
          /\ getCount(tileMap_) <= target =>
               (tileMap_' = tileMap_ /\ loadRequests_' = loadRequests_)]_vars

\* A clean that removed a tile and left a more recently requested tile that
\* is not LOADING.
CleanKeptMoreRecent ==
  /\ lastOp.op = "cleanCache"
  /\ lastOp.removed >= 1
  /\ \E t \in getValues(tileMap_) :
       tiles[t].state # LOADING /\ tiles[t].requestTime = 1

\* ---------------------------------------------------------------- C10
Ascending(arr, heap) ==
  \A i \in 1..(Len(arr) - 1) : heap[arr[i]].requestTime <= heap[arr[i + 1]].requestTime
LoadsIssued == {l.tile : l \in pending' \ pending}
DispatchBudget(tilesToBeLoading) ==
  Min(Len(loadRequests_), tilesToBeLoading - loadingTileCounter[tileProvider_])
\* What C10 says in both readings: at most max(0, n) tiles are handed to the
\* provider, none when n <= 0, and every other queued tile stays queued once.
DispatchCommon ==
  LET n == DispatchBudget(lastOp'.tilesToBeLoading) IN
  /\ Cardinality(LoadsIssued) <= Max(0, n)
  /\ Cardinality(LoadsIssued) = lastOp'.accepted
  /\ n <= 0 => (LoadsIssued = {} /\ tiles' = tiles)
  /\ LoadsIssued \subseteq Range(loadRequests_)
  /\ \A t \in LoadsIssued : tiles'[t].state = LOADING
  /\ Range(loadRequests_') = Range(loadRequests_) \ LoadsIssued
  /\ \A t \in Range(loadRequests_') : Occurrences(loadRequests_', t) = 1

\* C10 as stated: a round with n <= 0 does nothing, and the queue after a
\* round is the queue before it without the accepted tiles.  Stated for
\* queues whose tiles have pairwise different requestTimes, which the sort can
\* arrange in one way only.
DistinctTimes(arr, heap) ==
  \A i, j \in 1..Len(arr) : i # j => heap[arr[i]].requestTime # heap[arr[j]].requestTime
DispatchRoundAsStated ==
  [][(lastOp'.op = "processLoadRequests" /\ DistinctTimes(loadRequests_, tiles)) =>
       LET Kept(t) == t \notin LoadsIssued IN
       /\ DispatchCommon
       /\ DispatchBudget(lastOp'.tilesToBeLoading) <= 0 => loadRequests_' = loadRequests_
       /\ loadRequests_' = SelectSeq(loadRequests_, Kept)]_vars

\* C10 as amended: the queue after a round holds the tiles of the queue
\* before it without the accepted tiles, in ascending requestTime order; a
\* round with n <= 0 offers no tile but still sorts the queue.
DispatchRoundSorted ==
  [][lastOp'.op = "processLoadRequests" =>
       /\ DispatchCommon
       /\ Ascending(loadRequests_', tiles)]_vars

\* A round in which the provider declined a load and accepted one, and a
\* tile is still queued.
DispatchDeclinedAndAccepted ==
  /\ lastOp.op = "processLoadRequests"
  /\ lastOp.declined >= 1
  /\ lastOp.accepted >= 1
  /\ loadRequests_ # <<>>

\* ---------------------------------------------------------------- C11
\* C11: every tile the provider accepts in a processLoadRequests round has a
\* requestTime >= that of every tile left in loadRequests_ at the end of the
\* round, and no tile is passed to loadTile while a tile with a strictly
\* higher requestTime is in loadRequests_.
MostRecentFirst ==
  [][lastOp'.op = "loadTile" =>
       /\ \A a \in LoadsIssued, q \in Range(loadRequests_') :
            tiles[a].requestTime >= tiles[q].requestTime
       /\ LoadsIssued =
            {lastOp'.offers[i].tile : i \in {j \in DOMAIN lastOp'.offers :
                                                lastOp'.offers[j].accepted}}
       /\ \A i \in DOMAIN lastOp'.offers :
            /\ lastOp'.offers[i].tile \in Range(loadRequests_)
            /\ \A q \in lastOp'.offers[i].queued :
                 tiles[q].requestTime <= tiles[lastOp'.offers[i].tile].requestTime]_vars

\* A round that passed the most recently requested tile to the provider,
\* which accepted it, and left an earlier requested tile queued.
AcceptedNewerThanQueued ==
  /\ lastOp.op = "loadTile"
  /\ \E i \in DOMAIN lastOp.offers :
       /\ lastOp.offers[i].accepted
       /\ tiles[lastOp.offers[i].tile].state = LOADING
       /\ \E q \in Range(loadRequests_) :
            tiles[q].requestTime < tiles[lastOp.offers[i].tile].requestTime

\* ---------------------------------------------------------------- C12
\* C12: setTileProvider can be called in every state; it leaves tileMap_ and
\* loadRequests_ empty, sets tileProviderResetTime_ to the current time, which
\* is never below the previous reset time, and sets tileProvider_, the provider
\* every later processLoadRequests round passes its tiles to.
SetProviderResets ==
  [][/\ \A p \in Providers : ENABLED setTileProvider(p)
     /\ lastOp'.op = "setTileProvider" =>
          /\ tileMap_' = EmptyMap
          /\ loadRequests_' = <<>>
          /\ now' = now
          /\ tileProviderResetTime_' = now
          /\ tileProviderResetTime_' >= tileProviderResetTime_
          /\ tileProvider_' = lastOp'.provider
     /\ lastOp'.op # "setTileProvider" =>
          /\ tileProvider_' = tileProvider_
          /\ tileProviderResetTime_' = tileProviderResetTime_
          /\ \A l \in pending' \ pending : l.provider = tileProvider_]_vars

\* The state right after a setTileProvider that found a load in flight.
ProviderJustSet ==
  /\ lastOp.op = "setTileProvider"
  /\ lastOp.inflight >= 1
  /\ tileProviderResetTime_ = 1
  /\ tileMap_ = EmptyMap
  /\ loadRequests_ = <<>>

\* ---------------------------------------------------------------- C13
\* C13: in every state between operations each tile is in loadRequests_ at
\* most once, and every tile in loadRequests_ is the tile tileMap_ holds under
\* its key and is in PREPARING state.
QueueConsistent ==
  \A i \in 1..Len(loadRequests_) :
    LET t == loadRequests_[i] IN
    /\ Occurrences(loadRequests_, t) = 1
    /\ t \in DOMAIN tiles
    /\ tileMap_[tiles[t].key] = t
    /\ tiles[t].state = PREPARING

\* Two tiles are queued although a round has offered them to the provider.
TwoQueuedAfterDecline ==
  /\ Len(loadRequests_) = 2
  /\ lastOp.op = "processLoadRequests"
  /\ lastOp.declined >= 1

\* ---------------------------------------------------------------- C14
\* C14: from one operation to the next the state of a Tile changes only from
\* PREPARING to LOADING (a processLoadRequests round in which the provider
\* accepted it), from LOADING to LOADED (a completion with requestTime >=
\* tileProviderResetTime_) and from LOADING to ERROR (a reported failure or a
\* late completion); LOADED and ERROR are never left and LOADING is never
\* skipped.
Completed == {l.tile : l \in pending \ pending'}
TileStateMachine ==
  [][\A t \in (DOMAIN tiles) \cap (DOMAIN tiles') :
       LET a == tiles[t].state
           b == tiles'[t].state
       IN \/ a = b
          \/ /\ a = PREPARING /\ b = LOADING
             /\ t \in LoadsIssued
             /\ t \in Range(loadRequests_) \ Range(loadRequests_')
          \/ /\ a = LOADING /\ b = LOADED
             /\ t \in Completed
             /\ tiles[t].requestTime >= tileProviderResetTime_
          \/ /\ a = LOADING /\ b = ERROR
             /\ t \in Completed]_vars

\* The cache holds a tile that went through to LOADED and one that ended in
\* ERROR.
LoadedAndErrorInStore ==
  \E t, u \in getValues(tileMap_) :
    tiles[t].state = LOADED /\ tiles[u].state = ERROR

\* ---------------------------------------------------------------- C15
\* C15 as stated: when a tile was LOADING at a setTileProvider call and its
\* load completes afterwards with requestTime < tileProviderResetTime_, the
\* tile is set to ERROR, tileCachedHandler is not invoked, and tileMap_ holds
\* that tile under its key, in ERROR state.
LateTileShownInStore ==
  (/\ lastOp.op = "tileLoaded_"
   /\ lastOp.superseded
   /\ lastOp.requestTime < tileProviderResetTime_) =>
    /\ lastOp.state = ERROR
    /\ ~lastOp.cached
    /\ tileMap_[lastOp.key] = lastOp.tile
    /\ lastOp.tile \in DOMAIN tiles
    /\ tiles[lastOp.tile].state = ERROR

\* C15 as amended: the tile is set to ERROR and tileCachedHandler is not
\* invoked, but tileMap_ does not hold the tile: setTileProvider has cleared
\* it, and its key is absent or maps to a Tile created afterwards.
LateTileNotInStore ==
  (/\ lastOp.op = "tileLoaded_"
   /\ lastOp.superseded
   /\ lastOp.requestTime < tileProviderResetTime_) =>
    /\ lastOp.state = ERROR
    /\ ~lastOp.cached
    /\ ~InStore(lastOp.tile)
    /\ lastOp.tile \notin Range(loadRequests_)
    /\ tileMap_[lastOp.key] # lastOp.tile

\* A late completion of a superseded load while the cache holds a newer Tile
\* for the same key.
LateTileBesideNewTile ==
  /\ lastOp.op = "tileLoaded_"
  /\ lastOp.superseded
  /\ lastOp.requestTime < tileProviderResetTime_
  /\ lastOp.state = ERROR
  /\ tileMap_[lastOp.key] # NoTile
  /\ tiles[tileMap_[lastOp.key]].state # ERROR

\* ---------------------------------------------------------------- C16
\* C16: updateRequestTime on a key that is not in tileMap_ changes nothing:
\* tileMap_, every Tile's requestTime and state, and loadRequests_ stay as
\* they are, and no Tile is created.
UpdateAbsentKeyNoOp ==
  [][\A k \in Keys, rt \in Times :
       (updateRequestTime(k, rt) /\ tileMap_[k] = NoTile) =>
         /\ tileMap_' = tileMap_
         /\ tiles' = tiles
         /\ loadRequests_' = loadRequests_
         /\ pending' = pending
         /\ lastOp'.op = "updateRequestTime" /\ ~lastOp'.hit]_vars

\* updateRequestTime was called with a key that is not in the cache while
\* another tile is cached and queued.
UpdateMissedBesideQueued ==
  /\ lastOp.op = "updateRequestTime"
  /\ ~lastOp.hit
  /\ tileMap_[lastOp.key] = NoTile
  /\ getCount(tileMap_) >= 1
  /\ loadRequests_ # <<>>

\* ---------------------------------------------------------------- C17
\* The outcomes of cleanCache followed by purgeNotLoadedTiles, and of
\* purgeNotLoadedTiles followed by cleanCache, from the current state with
\* the same targetSize, timeLimit and clock reading.
CleanOutcomes(map, queue, target) ==
  {CleanLoop(c, map, queue, tiles, target) : c \in SortedCleanable(map, tiles)}
CleanThenPurge(target, timeLimit) ==
  {PurgeLoop(r.queue, r.map, tiles, now - timeLimit) :
     r \in CleanOutcomes(tileMap_, loadRequests_, target)}
PurgeThenClean(target, timeLimit) ==
  LET r == PurgeLoop(loadRequests_, tileMap_, tiles, now - timeLimit)
  IN CleanOutcomes(r.map, r.queue, target)
PurgeIsNoOp(timeLimit) ==
  PurgeLoop(loadRequests_, tileMap_, tiles, now - timeLimit).queue = loadRequests_

\* C17 as stated: in every state, cleanCache then purgeNotLoadedTiles leaves
\* the same tileMap_ and loadRequests_ as purgeNotLoadedTiles then cleanCache.
CleanAndPurgeCommute ==
  \A target \in 0..MaxTargetSize, timeLimit \in 0..MaxTimeLimit :
    CleanThenPurge(target, timeLimit) = PurgeThenClean(target, timeLimit)

\* C17 as amended: the two orders leave the same tileMap_ and loadRequests_
\* when the cache holds at most targetSize tiles or the purge alone removes
\* nothing; otherwise cleanCache first can remove a tile that it would have
\* kept after the purge, and never leaves more tiles than the other order.
CleanAndPurgeCommuteWhenOneIdle ==
  \A target \in 0..MaxTargetSize, timeLimit \in 0..MaxTimeLimit :
    /\ (getCount(tileMap_) <= target \/ PurgeIsNoOp(timeLimit)) =>
         CleanThenPurge(target, timeLimit) = PurgeThenClean(target, timeLimit)
    /\ \A a \in CleanThenPurge(target, timeLimit), b \in PurgeThenClean(target, timeLimit) :
         getCount(a.map) <= getCount(b.map)

\* A state from which cleanCache then purgeNotLoadedTiles empties the cache
\* and the other order leaves a tile.
CleanFirstRemovesMore ==
  \E target \in 0..MaxTargetSize, timeLimit \in 0..MaxTimeLimit :
    /\ getCount(tileMap_) > target
    /\ ~PurgeIsNoOp(timeLimit)
    /\ \E a \in CleanThenPurge(target, timeLimit) : getCount(a.map) = 0
    /\ \A b \in PurgeThenClean(target, timeLimit) : getCount(b.map) = 1

\* ---------------------------------------------------------------- C18
\* C18: a queued tile is not passed to the provider by a processLoadRequests
\* round as long as the queue holds at least n tiles with a strictly higher
\* requestTime, n being the number of loads the round may start; it stays
\* queued in PREPARING state, round after round, while newer requests keep
\* arriving, even when the provider accepts every load.
NewerQueued(t) ==
  {q \in Range(loadRequests_) : tiles[q].requestTime > tiles[t].requestTime}
PreparingIn(map, heap) == {t \in getValues(map) : heap[t].state = PREPARING}
PreparingTilesAreQueued ==
  PreparingIn(tileMap_, tiles) = Range(loadRequests_)

\* The cache holds a LOADED tile and one PREPARING tile, which is the only
\* tile queued.
OnePreparingOneLoaded ==
  \E t, u \in getValues(tileMap_) :
    /\ tiles[t].state = PREPARING
    /\ tiles[u].state = LOADED
    /\ loadRequests_ = <<t>>

\* ---------------------------------------------------------------- C20
InFlightAt(p) == {l \in pending : l.provider = p}

\* C20 as stated: with one tilesToBeLoading value passed to every
\* processLoadRequests call and setTileProvider called with fresh providers
\* only, the loads issued and not yet completed never exceed that value.
TotalInFlightCapped == Cardinality(pending) <= MaxConcurrent

\* C20 as amended: the loads in flight at each single provider never exceed
\* tilesToBeLoading and equal that provider's loadingTileCounter; the loads
\* of a provider replaced by setTileProvider stay in flight and are not
\* counted against the new provider's, so the total can exceed the value.
InFlightCappedPerProvider ==
  \A p \in Providers :
    /\ loadingTileCounter[p] = Cardinality(InFlightAt(p))
    /\ Cardinality(InFlightAt(p)) <= MaxConcurrent

\* The new provider is loading as many tiles as allowed while a load of the
\* replaced provider is still in flight.
InFlightAtBothProviders ==
  /\ Cardinality(InFlightAt(tileProvider_)) = MaxConcurrent
  /\ \E p \in Providers \ {tileProvider_} : InFlightAt(p) # {}
  /\ Cardinality(pending) > MaxConcurrent
====
